---- MODULE Spec2Model ----
(***************************************************************************)
(* Model of the hierarchical error selection engine of the analytics       *)
(* dashboard: SelectedErrorProvider (src/contexts/selected-error-context   *)
(* .tsx), its filter getFilteredBots, its persistence in localStorage and  *)
(* the storage notifications between browser sessions.                     *)
(*                                                                         *)
(* Strings are sequences of tokens (<<"A">>, <<"A", "::", "timeout">>), so *)
(* that string concatenation and startsWith are computed, not assumed.     *)
(***************************************************************************)
EXTENDS Integers, Sequences, FiniteSets, TLC

(***************************************************************************)
(* Bounds of the model.                                                    *)
(***************************************************************************)
\* addErrorValue is called on lists shorter than this
MaxSel == 2
\* most undelivered storage events per session
MaxInbox == 1

(***************************************************************************)
(* Names: categories (status.value), messages, composite keys.             *)
(***************************************************************************)
CatA == <<"A">>
CatB == <<"B">>
CatC == <<"C">>
CatW == <<"Webhook Error">>
\* a category no dataset of the model contains
CatX == <<"X">>
MsgTimeout == <<"timeout">>
MsgDenied == <<"denied">>
NoMessage == <<>>
Sep == <<"::">>

SELECTED_ERROR_STORAGE_KEY == "analytics-selected-errors"
SELECTED_SUBTYPES_STORAGE_KEY == "analytics-selected-subtypes"

NON_CRITICAL_ERRORS ==
  << <<"Bot Not Accepted">>, <<"Insufficient Tokens">>, <<"Invalid Meeting URL">>,
     <<"Meeting Already Started">>, <<"Meeting Start Timeout">>, <<"Webhook Error">> >>

(***************************************************************************)
(* Array helpers (Array.prototype.includes / filter, Set semantics).       *)
(***************************************************************************)
ToSet(seq) == {seq[i] : i \in 1..Len(seq)}

includes(seq, v) == \E i \in 1..Len(seq) : seq[i] = v

\* the elements of seq in order, each kept at its first occurrence only
RECURSIVE Distinct(_)
Distinct(seq) ==
  IF seq = <<>> THEN <<>>
  ELSE LET front == Distinct(SubSeq(seq, 1, Len(seq) - 1))
           last == seq[Len(seq)]
       IN IF includes(front, last) THEN front ELSE Append(front, last)

\* String.prototype.startsWith
startsWith(s, p) == Len(p) <= Len(s) /\ SubSeq(s, 1, Len(p)) = p

\* `${errorType}::${subtypeName}`
SubtypeKey(errorType, subtypeName) == errorType \o Sep \o subtypeName

(***************************************************************************)
(* Records (FormattedBotData) and the datasets the provider is given.      *)
(***************************************************************************)
Bot(uuid, type, value, message) ==
  [uuid |-> uuid, status |-> [type |-> type, value |-> value, message |-> message]]

\* A is expandable (two subtypes), B and the denylisted W are not.
BotsOne ==
  << Bot("u4", "success", <<"ok">>, NoMessage),
     Bot("u1", "error", CatA, MsgTimeout),
     Bot("u3", "warning", CatB, MsgDenied),
     Bot("u2", "error", CatA, MsgDenied),
     Bot("u5", "pending", <<"wait">>, NoMessage),
     Bot("u6", "error", CatW, NoMessage) >>

\* after a refresh: B and W are gone, A has one subtype left, C is new and expandable
BotsTwo ==
  << Bot("u1", "error", CatA, MsgTimeout),
     Bot("u7", "error", CatC, MsgTimeout),
     Bot("u4", "success", <<"ok">>, NoMessage),
     Bot("u8", "warning", CatC, MsgDenied) >>

\* ten error records: six of A (three timeout, three denied), four of B (all denied)
BotsTen ==
  << Bot("t1", "error", CatA, MsgTimeout),
     Bot("t2", "error", CatB, MsgDenied),
     Bot("t3", "error", CatA, MsgDenied),
     Bot("t4", "error", CatA, MsgTimeout),
     Bot("t5", "error", CatB, MsgDenied),
     Bot("t6", "error", CatA, MsgDenied),
     Bot("t7", "error", CatB, MsgDenied),
     Bot("t8", "error", CatA, MsgTimeout),
     Bot("t9", "error", CatA, MsgDenied),
     Bot("t10", "error", CatB, MsgDenied) >>

\* a category named "A::x" next to the category "A", and a message "x::denied"
CatAx == CatA \o Sep \o <<"x">>
MsgXDenied == <<"x">> \o Sep \o MsgDenied
BotsNested ==
  << Bot("n1", "error", CatA, MsgTimeout),
     Bot("n2", "error", CatA, MsgXDenied),
     Bot("n3", "error", CatAx, MsgDenied),
     Bot("n4", "error", CatAx, MsgTimeout) >>

isErrorBot(bot) == bot.status.type \in {"error", "warning"}

\* the names of the error distribution the parent derives from the records
DistributionNames(bots) ==
  LET errs == SelectSeq(bots, isErrorBot)
  IN Distinct([i \in 1..Len(errs) |-> errs[i].status.value])

Datasets ==
  [one |-> [allBots |-> BotsOne, initialErrorDistribution |-> DistributionNames(BotsOne)],
   two |-> [allBots |-> BotsTwo, initialErrorDistribution |-> DistributionNames(BotsTwo)],
   ten |-> [allBots |-> BotsTen, initialErrorDistribution |-> DistributionNames(BotsTen)],
   nested |-> [allBots |-> BotsNested,
               initialErrorDistribution |-> DistributionNames(BotsNested)]]

DatasetIds == DOMAIN Datasets

\* the datasets the sessions are fed with; the third one is only filtered directly
SessionDatasets == {"one", "two"}
\* the datasets filtered directly over the selections of ProbeNames and ProbeKeys
ProbeDatasets == {"one", "two", "ten"}

(***************************************************************************)
(* Taxonomy extractor: getErrorTable of lib/format-bot-stats.              *)
(***************************************************************************)
\* the subtype label of a record: its message, or the category when it has none
\* variant: the message is ignored, every record is labelled by its category
LabelOf_CategoryOnly(bot) == bot.status.value

LabelOf(bot) ==
  IF bot.status.message = NoMessage THEN bot.status.value ELSE bot.status.message

\* the (category, label) of each record
Groups(errorBots) ==
  [i \in 1..Len(errorBots) |-> <<errorBots[i].status.value, LabelOf(errorBots[i])>>]

\* one entry per pair, holding the uuids of the records of that category and label
Entries(errorBots, pairs) ==
  [j \in 1..Len(pairs) |->
     [originalType |-> pairs[j][1],
      type |-> pairs[j][1],
      message |-> pairs[j][2],
      botUuids |-> {errorBots[i].uuid : i \in
                      {k \in 1..Len(errorBots) :
                         <<errorBots[k].status.value, LabelOf(errorBots[k])>> = pairs[j]}}]]

\* one entry per distinct (category, label), in order of first occurrence
getErrorTable(errorBots) == Entries(errorBots, Distinct(Groups(errorBots)))

(***************************************************************************)
(* canExpand and getFilteredBots of SelectedErrorProvider.  ds names the   *)
(* allBots prop the callbacks were created over.                           *)
(***************************************************************************)
\* errorTableData: getErrorTable(groupBy(errorBots, "status.value")) over the error and
\* warning records of allBots
ErrorTables ==
  [ds \in DatasetIds |-> getErrorTable(SelectSeq(Datasets[ds].allBots, isErrorBot))]

\* errorTableData.filter(entry => entry.originalType === errorType)
SubtypesOf(errorTableData, errorType) ==
  LET hasType(entry) == entry.originalType = errorType
  IN SelectSeq(errorTableData, hasType)

\* variant: a category with a single subtype entry counts as expandable
canExpand_AtLeastOne(ds, errorType) == Len(SubtypesOf(ErrorTables[ds], errorType)) > 0

canExpand(ds, errorType) == Len(SubtypesOf(ErrorTables[ds], errorType)) > 1

\* mutant: only records of type error are held to the category selection
PassesCategory_WarningsPass(bot, errorValues) ==
  IF bot.status.type # "error" THEN TRUE ELSE includes(errorValues, bot.status.value)

\* variant: only the category selected last counts
PassesCategory_LastOnly(bot, errorValues) ==
  IF bot.status.type = "pending" \/ bot.status.type = "success"
  THEN TRUE
  ELSE errorValues # <<>> /\ errorValues[Len(errorValues)] = bot.status.value

\* first pass of getFilteredBots: the category rule
PassesCategory(bot, errorValues) ==
  IF bot.status.type = "pending" \/ bot.status.type = "success"
  THEN TRUE
  ELSE includes(errorValues, bot.status.value)

\* subtypeKey of an entry of the error table
EntryKey(entry) ==
  SubtypeKey(entry.originalType,
             IF entry.type = entry.originalType THEN entry.message ELSE entry.type)

\* mutant: an entry is selected by its subtype name alone, whatever the category of the key
SelectedSubtypeUuids_ByName(errorTableData, subtypes) ==
  LET suffixOf(entry) ==
        Sep \o (IF entry.type = entry.originalType THEN entry.message ELSE entry.type)
      endsWith(k, x) == Len(x) <= Len(k) /\ SubSeq(k, Len(k) - Len(x) + 1, Len(k)) = x
  IN UNION {errorTableData[j].botUuids :
              j \in {k \in 1..Len(errorTableData) :
                       \E i \in 1..Len(subtypes) :
                         endsWith(subtypes[i], suffixOf(errorTableData[k]))}}

\* the uuids of the entries whose composite key is selected
SelectedSubtypeUuids(errorTableData, subtypes) ==
  UNION {errorTableData[j].botUuids :
           j \in {k \in 1..Len(errorTableData) :
                    includes(subtypes, EntryKey(errorTableData[k]))}}

\* second pass of getFilteredBots: the subtype rule
PassesSubtype(ds, bot, errorValues, selectedSubtypeUuids) ==
  IF bot.status.type = "pending" \/ bot.status.type = "success"
  THEN TRUE
  ELSE IF canExpand(ds, bot.status.value) /\ includes(errorValues, bot.status.value)
       THEN bot.uuid \in selectedSubtypeUuids
       ELSE includes(errorValues, bot.status.value)

\* mutant: the subtype pass runs also when no subtype is selected
SubtypeFilter_Always(ds, errorValues, subtypes, filtered) ==
  LET pass2(bot) ==
        PassesSubtype(ds, bot, errorValues, SelectedSubtypeUuids(ErrorTables[ds], subtypes))
  IN SelectSeq(filtered, pass2)

\* "Apply subtype filtering if any subtypes are selected"
SubtypeFilter(ds, errorValues, subtypes, filtered) ==
  LET pass2(bot) ==
        PassesSubtype(ds, bot, errorValues, SelectedSubtypeUuids(ErrorTables[ds], subtypes))
  IN IF Len(subtypes) > 0 THEN SelectSeq(filtered, pass2) ELSE filtered

getFilteredBots(ds, errorValues, subtypes) ==
  LET pass1(bot) == PassesCategory(bot, errorValues)
  IN SubtypeFilter(ds, errorValues, subtypes, SelectSeq(Datasets[ds].allBots, pass1))

(***************************************************************************)
(* localStorage values and JSON.                                           *)
(***************************************************************************)
\* getItem of a key never written (also newValue of a removed key)
Null == [kind |-> "null"]
\* the empty string, falsy like null
EmptyText == [kind |-> "empty"]
\* text JSON.parse throws on
Garbage == [kind |-> "garbage"]
\* valid JSON that is no array: .filter and new Set(...) throw a TypeError on it
JsonObject == [kind |-> "object"]

\* JSON.stringify of an array of strings
JSONstringify(list) == [kind |-> "list", items |-> list]

\* `!stored` / `e.newValue &&`
Truthy(v) == v.kind \notin {"null", "empty"}

\* the JSON text of a string, given by its characters: it parses, but not to an array
JsonString(chars) == [kind |-> "string", items |-> chars]

\* JSON.parse and .filter inside try: ok is FALSE when the try block throws
JSONparse(v) ==
  IF v.kind = "list" THEN [ok |-> TRUE, items |-> v.items] ELSE [ok |-> FALSE]

\* new Set(JSON.parse(v)) inside try: an array gives its distinct elements, a string its
\* distinct characters, anything else that parses is not iterable and throws
NewSet(v) ==
  IF v.kind = "list" THEN [ok |-> TRUE, items |-> Distinct(v.items)]
  ELSE IF v.kind = "string"
       THEN [ok |-> TRUE, items |-> Distinct([i \in 1..Len(v.items) |-> <<v.items[i]>>])]
       ELSE [ok |-> FALSE]

Sessions == {1, 2}

VARIABLES
  mounted,              \* the sessions (browser tabs) that exist
  dataset,              \* per session: the props allBots / initialErrorDistribution
  selectedErrorValues,  \* per session: React state, a list of category names
  selectedSubtypes,     \* per session: React state, a Set in insertion order
  filteredBots,         \* per session: React state
  localStorage,         \* the two persisted entries, shared by the sessions
  inbox,                \* per session: storage events not yet dispatched
  lastOp,               \* the operation that produced the state
  probe,                \* inputs and output of a direct call of getFilteredBots
  card,                 \* React state of the ErrorDistributionCard of session 1
  hover                 \* the card's debounced hover callback and what it drives

vars == <<mounted, dataset, selectedErrorValues, selectedSubtypes, filteredBots,
          localStorage, inbox, lastOp, probe, card, hover>>

sessionVars == <<mounted, dataset, selectedErrorValues, selectedSubtypes, filteredBots,
                 localStorage, inbox>>

(***************************************************************************)
(* Derived values of the provider.                                         *)
(***************************************************************************)
allErrorValues(ds) == Datasets[ds].initialErrorDistribution

defaultErrorValues(ds) ==
  LET critical(value) == ~includes(NON_CRITICAL_ERRORS, value)
  IN SelectSeq(allErrorValues(ds), critical)

\* parsed.filter((value) => allErrorValues.includes(value))
ValidValues(ds, values) ==
  LET known(value) == includes(allErrorValues(ds), value)
  IN SelectSeq(values, known)

\* variant: the stored list is read as a set
InitialErrorValues_Dedup(ds, stored) ==
  IF ~Truthy(stored) THEN defaultErrorValues(ds)
  ELSE IF JSONparse(stored).ok THEN Distinct(ValidValues(ds, JSONparse(stored).items))
       ELSE defaultErrorValues(ds)

\* useState initializer of selectedErrorValues
InitialErrorValues(ds, stored) ==
  IF ~Truthy(stored) THEN defaultErrorValues(ds)
  ELSE IF JSONparse(stored).ok THEN ValidValues(ds, JSONparse(stored).items)
       ELSE defaultErrorValues(ds)

\* useState initializer of selectedSubtypes: new Set(parsed)
InitialSubtypes(stored) ==
  IF ~Truthy(stored) THEN <<>>
  ELSE IF NewSet(stored).ok THEN NewSet(stored).items
       ELSE <<>>

botsFilteredByError(ds, errorValues, subtypes) ==
  \/ Len(errorValues) # Len(allErrorValues(ds))
  \/ ~(\A i \in 1..Len(errorValues) : includes(allErrorValues(ds), errorValues[i]))
  \/ Len(subtypes) > 0

(***************************************************************************)
(* Handlers.  A handler reads the values of the render it was created in   *)
(* (c: selectedErrorValues, selectedSubtypes) and produces the next React  *)
(* state, the storage and the storage events of its writes (w).            *)
(***************************************************************************)
Closure(w) == [err |-> w.err, subs |-> w.subs]

\* localStorage.setItem: other sessions are notified when the value changes
setItem(w, key, value) ==
  [w EXCEPT !.store[key] = value,
            !.out = IF w.store[key] = value THEN @
                    ELSE Append(@, [key |-> key, newValue |-> value])]

updateSelectedValues(ds, c, w, newValues) ==
  setItem([w EXCEPT !.err = newValues,
                    !.fb = getFilteredBots(ds, newValues, c.subs)],
          SELECTED_ERROR_STORAGE_KEY, JSONstringify(newValues))

\* mutant: the subtypes entry is written from the Set of the last render
setSelectedSubtypes_PersistsOld(ds, c, w, newSubtypes) ==
  setItem([w EXCEPT !.subs = newSubtypes,
                    !.fb = getFilteredBots(ds, c.err, newSubtypes)],
          SELECTED_SUBTYPES_STORAGE_KEY, JSONstringify(c.subs))

setSelectedSubtypes(ds, c, w, newSubtypes) ==
  setItem([w EXCEPT !.subs = newSubtypes,
                    !.fb = getFilteredBots(ds, c.err, newSubtypes)],
          SELECTED_SUBTYPES_STORAGE_KEY, JSONstringify(newSubtypes))

\* mutant: the notified categories are merged into the local selection
handleStorageChange_Merges(ds, c, w, e) ==
  IF e.key = SELECTED_ERROR_STORAGE_KEY /\ Truthy(e.newValue)
  THEN IF JSONparse(e.newValue).ok
       THEN updateSelectedValues(ds, c, w,
                                 c.err \o ValidValues(ds, JSONparse(e.newValue).items))
       ELSE updateSelectedValues(ds, c, w, allErrorValues(ds))
  ELSE IF e.key = SELECTED_SUBTYPES_STORAGE_KEY /\ Truthy(e.newValue)
       THEN IF NewSet(e.newValue).ok
            THEN setSelectedSubtypes(ds, c, w, NewSet(e.newValue).items)
            ELSE setSelectedSubtypes(ds, c, w, <<>>)
       ELSE w

\* mutant: only the categories key is listened to
handleStorageChange_CategoriesOnly(ds, c, w, e) ==
  IF e.key = SELECTED_ERROR_STORAGE_KEY /\ Truthy(e.newValue)
  THEN IF JSONparse(e.newValue).ok
       THEN updateSelectedValues(ds, c, w, ValidValues(ds, JSONparse(e.newValue).items))
       ELSE updateSelectedValues(ds, c, w, allErrorValues(ds))
  ELSE w

handleStorageChange(ds, c, w, e) ==
  IF e.key = SELECTED_ERROR_STORAGE_KEY /\ Truthy(e.newValue)
  THEN IF JSONparse(e.newValue).ok
       THEN updateSelectedValues(ds, c, w, ValidValues(ds, JSONparse(e.newValue).items))
       ELSE updateSelectedValues(ds, c, w, allErrorValues(ds))
  ELSE IF e.key = SELECTED_SUBTYPES_STORAGE_KEY /\ Truthy(e.newValue)
       THEN IF NewSet(e.newValue).ok
            THEN setSelectedSubtypes(ds, c, w, NewSet(e.newValue).items)
            ELSE setSelectedSubtypes(ds, c, w, <<>>)
       ELSE w

addErrorValue(ds, c, w, value) == updateSelectedValues(ds, c, w, Append(c.err, value))

removeErrorValue(ds, c, w, value) ==
  LET other(v) == v # value
  IN updateSelectedValues(ds, c, w, SelectSeq(c.err, other))

\* Set.add keeps the place of a key that is already in the set
addSubtype(ds, c, w, subtype) ==
  setSelectedSubtypes(ds, c, w,
    IF includes(c.subs, subtype) THEN c.subs ELSE Append(c.subs, subtype))

removeSubtype(ds, c, w, subtype) ==
  LET other(k) == k # subtype
  IN setSelectedSubtypes(ds, c, w, SelectSeq(c.subs, other))

\* variant: every key is removed, whatever its category
clearSubtypesForError_ClearsAll(ds, c, w, errorType) == setSelectedSubtypes(ds, c, w, <<>>)

clearSubtypesForError(ds, c, w, errorType) ==
  LET kept(subtypeKey) == ~startsWith(subtypeKey, errorType \o Sep)
  IN setSelectedSubtypes(ds, c, w, SelectSeq(c.subs, kept))

reset(ds, c, w) ==
  setSelectedSubtypes(ds, c, updateSelectedValues(ds, c, w, allErrorValues(ds)), <<>>)

selectAll(ds, c, w, values) == updateSelectedValues(ds, c, w, values)

\* variant: selectNone that leaves the subtype selection alone
selectNone_KeepsSubtypes(ds, c, w) == updateSelectedValues(ds, c, w, <<>>)

selectNone(ds, c, w) ==
  setSelectedSubtypes(ds, c, updateSelectedValues(ds, c, w, <<>>), <<>>)

selectDefault(ds, c, w) ==
  setSelectedSubtypes(ds, c, updateSelectedValues(ds, c, w, defaultErrorValues(ds)), <<>>)

(***************************************************************************)
(* The effects React runs after a render that committed w.                 *)
(***************************************************************************)
\* variant: filteredBots is left as the handlers set it
RecomputeEffect_Off(ds, w) == w

\* useEffect "Update filtered bots when allBots changes"
RecomputeEffect(ds, w) ==
  [w EXCEPT !.fb = getFilteredBots(ds, w.err, w.subs)]

\* mutant: the selection is never pruned
PruneEffect_Off(ds, w) == w

\* mutant: the pruned selection is set but not written to storage
PruneEffect_NoPersist(ds, w) ==
  LET availableErrorTypes == Datasets[ds].initialErrorDistribution
      available(value) == includes(availableErrorTypes, value)
      validSelectedValues == SelectSeq(w.err, available)
  IN IF Len(validSelectedValues) # Len(w.err)
     THEN [w EXCEPT !.err = validSelectedValues,
                    !.fb = getFilteredBots(ds, validSelectedValues, w.subs)]
     ELSE w

\* useEffect "Update selected values when initial distribution changes"
PruneEffect(ds, w) ==
  LET availableErrorTypes == Datasets[ds].initialErrorDistribution
      available(value) == includes(availableErrorTypes, value)
      validSelectedValues == SelectSeq(w.err, available)
  IN IF Len(validSelectedValues) # Len(w.err)
     THEN updateSelectedValues(ds, Closure(w), w, validSelectedValues)
     ELSE w

\* render, effects, and the renders the effects' own updates cause
RECURSIVE Settle(_, _)
\* a state the effects changed is rendered again
Rerender(ds, w, next) == IF next = w THEN w ELSE Settle(ds, next)

Settle(ds, w) == Rerender(ds, w, PruneEffect(ds, RecomputeEffect(ds, w)))

(***************************************************************************)
(* Inputs of the operations.                                               *)
(***************************************************************************)
SeqsUpTo(S, n) == UNION {[1..k -> S] : k \in 0..n}

ErrorValueInputs == {CatA, CatC, CatW}

KeyATimeout == SubtypeKey(CatA, MsgTimeout)
KeyADenied == SubtypeKey(CatA, MsgDenied)
KeyBDenied == SubtypeKey(CatB, MsgDenied)
KeyCTimeout == SubtypeKey(CatC, MsgTimeout)
\* a key of a category no dataset contains
KeyXTimeout == SubtypeKey(CatX, MsgTimeout)

SubtypeInputs == {KeyATimeout, KeyBDenied}

\* the card passes the names of its distribution; any list is accepted
SelectAllInputs(ds) == {allErrorValues(ds), <<CatA, CatX>>}

\* what the persisted entries may hold when a session starts
StoredErrorValues == {Null, JsonObject}
StoredSubtypes == {Null, Garbage}

\* what a writer that is not a session of the model may store
ForeignWrites ==
  {[key |-> SELECTED_ERROR_STORAGE_KEY, newValue |-> v] :
     v \in {Garbage, JSONstringify(<<CatX>>), JSONstringify(<<CatB, CatX, CatA>>)}}
  \cup
  {[key |-> SELECTED_SUBTYPES_STORAGE_KEY,
    newValue |-> JSONstringify(<<KeyADenied, KeyADenied>>)]}

(***************************************************************************)
(* Sessions.                                                               *)
(***************************************************************************)
World(s) ==
  [err |-> selectedErrorValues[s], subs |-> selectedSubtypes[s], fb |-> filteredBots[s],
   store |-> localStorage, out |-> <<>>]

\* the state of a session constructed over dataset ds from the stored entries
Hydrated(ds, store) ==
  Settle(ds, [err |-> InitialErrorValues(ds, store[SELECTED_ERROR_STORAGE_KEY]),
              subs |-> InitialSubtypes(store[SELECTED_SUBTYPES_STORAGE_KEY]),
              fb |-> Datasets[ds].allBots,
              store |-> store, out |-> <<>>])

\* lastOp: the operation, its session, and for a dispatched foreign event the event,
\* for a dataset change the selection before it, for clearSubtypesForError its argument
\* and the Set before it
NoOp == [op |-> "none", s |-> 0, arg |-> <<>>]
Op(op, s, arg) == [op |-> op, s |-> s, arg |-> arg]

ProbeIdle ==
  [call |-> "none", ds |-> "one", errorValues |-> <<>>, subtypes |-> <<>>,
   key |-> <<>>, before |-> <<>>, out |-> <<>>]

\* nothing hovered yet: no timer pending, the pointer over no entry
NoTarget == [name |-> <<>>, isSubtype |-> FALSE, parentType |-> <<>>]
HoverWait == 2
HoverIdle ==
  [mounted |-> TRUE, over |-> NoTarget, timer |-> 0, lastArgs |-> <<>>,
   hoveredBots |-> <<>>, lastEvent |-> <<>>, sinceEvent |-> HoverWait,
   sinceCall |-> HoverWait, callsOfBurst |-> 0, updatesOfEvents |-> 0,
   updatesOfCalls |-> 0]

\* the card before its first effects: useState(new Set()) for expandedErrors and
\* selectedSubtypes; filteredData and filteredTotal are set by the chart effect
CardIdle ==
  [expandedErrors |-> {}, selectedSubtypes |-> <<>>, filteredData |-> <<>>,
   filteredTotal |-> 0]

\* sessions live tabs open on the same origin, each over a dataset of its own
InitSessions(live) ==
  /\ mounted = live
  /\ dataset \in [Sessions -> SessionDatasets]
  /\ \A s \in Sessions \ live : dataset[s] = "one"
  /\ \E ev \in StoredErrorValues, st \in StoredSubtypes :
       localStorage = [k \in {SELECTED_ERROR_STORAGE_KEY, SELECTED_SUBTYPES_STORAGE_KEY} |->
                         IF k = SELECTED_ERROR_STORAGE_KEY THEN ev ELSE st]
  /\ selectedErrorValues = [s \in Sessions |-> Hydrated(dataset[s], localStorage).err]
  /\ selectedSubtypes = [s \in Sessions |-> Hydrated(dataset[s], localStorage).subs]
  /\ filteredBots = [s \in Sessions |-> Hydrated(dataset[s], localStorage).fb]
  /\ inbox = [s \in Sessions |-> <<>>]
  /\ lastOp = NoOp

\* the render and effects after a handler left w, and the delivery of its storage
\* events to the other sessions; rest is what remains of the session's own inbox
Commit(s, w, rest, op) ==
  \E r \in {Settle(dataset[s], w)} :
     /\ \A t \in mounted \ {s} : Len(inbox[t]) + Len(r.out) <= MaxInbox
     /\ selectedErrorValues' = [selectedErrorValues EXCEPT ![s] = r.err]
     /\ selectedSubtypes' = [selectedSubtypes EXCEPT ![s] = r.subs]
     /\ filteredBots' = [filteredBots EXCEPT ![s] = r.fb]
     /\ localStorage' = r.store
     /\ inbox' = [t \in Sessions |->
                    IF t = s THEN rest
                    ELSE IF t \in mounted THEN inbox[t] \o r.out ELSE inbox[t]]
     /\ lastOp' = op
     /\ UNCHANGED <<mounted, dataset, probe, card, hover>>

\* a call of a function of the context value, made from the session's last render
Call(s, w, op) == Commit(s, w, inbox[s], op)

AddErrorValue(s) ==
  \E value \in ErrorValueInputs, w \in {World(s)} :
    /\ Len(w.err) < MaxSel
    /\ Call(s, addErrorValue(dataset[s], Closure(w), w, value), Op("addErrorValue", s, <<>>))

RemoveErrorValue(s) ==
  \E value \in ErrorValueInputs, w \in {World(s)} :
    Call(s, removeErrorValue(dataset[s], Closure(w), w, value), Op("removeErrorValue", s, <<>>))

AddSubtype(s) ==
  \E subtype \in SubtypeInputs, w \in {World(s)} :
    Call(s, addSubtype(dataset[s], Closure(w), w, subtype), Op("addSubtype", s, <<>>))

RemoveSubtype(s) ==
  \E subtype \in SubtypeInputs, w \in {World(s)} :
    Call(s, removeSubtype(dataset[s], Closure(w), w, subtype), Op("removeSubtype", s, <<>>))

ClearSubtypesForError(s) ==
  \E errorType \in ErrorValueInputs, w \in {World(s)} :
    Call(s, clearSubtypesForError(dataset[s], Closure(w), w, errorType),
         Op("clearSubtypesForError", s, [errorType |-> errorType, before |-> w.subs]))

Reset(s) ==
  \E w \in {World(s)} :
    Call(s, reset(dataset[s], Closure(w), w), Op("reset", s, <<>>))

SelectAll(s) ==
  \E values \in SelectAllInputs(dataset[s]), w \in {World(s)} :
    Call(s, selectAll(dataset[s], Closure(w), w, values), Op("selectAll", s, <<>>))

SelectNone(s) ==
  \E w \in {World(s)} :
    Call(s, selectNone(dataset[s], Closure(w), w), Op("selectNone", s, <<>>))

SelectDefault(s) ==
  \E w \in {World(s)} :
    Call(s, selectDefault(dataset[s], Closure(w), w), Op("selectDefault", s, <<>>))

\* the browser dispatches the oldest pending storage event to the session
Deliver(s) ==
  /\ inbox[s] # <<>>
  /\ \E w \in {World(s)} :
       Commit(s, handleStorageChange(dataset[s], Closure(w), w, Head(inbox[s])),
              Tail(inbox[s]),
              Op("storage", s, IF Head(inbox[s]) \in ForeignWrites THEN Head(inbox[s]) ELSE <<>>))

\* a new fetch gives the provider other records and another distribution
DatasetChange(s) ==
  \E ds \in SessionDatasets \ {dataset[s]} :
    \E r \in {Settle(ds, World(s))} :
       /\ \A t \in mounted \ {s} : Len(inbox[t]) + Len(r.out) <= MaxInbox
       /\ dataset' = [dataset EXCEPT ![s] = ds]
       /\ selectedErrorValues' = [selectedErrorValues EXCEPT ![s] = r.err]
       /\ selectedSubtypes' = [selectedSubtypes EXCEPT ![s] = r.subs]
       /\ filteredBots' = [filteredBots EXCEPT ![s] = r.fb]
       /\ localStorage' = r.store
       /\ inbox' = [t \in Sessions |->
                      IF t \in mounted \ {s} THEN inbox[t] \o r.out ELSE inbox[t]]
       /\ lastOp' = Op("dataset", s, selectedErrorValues[s])
       /\ UNCHANGED <<mounted, probe, card, hover>>

\* the page is loaded again: the provider is constructed from the stored entries
Reload(s) ==
  \E r \in {Hydrated(dataset[s], localStorage)} :
     /\ selectedErrorValues' = [selectedErrorValues EXCEPT ![s] = r.err]
     /\ selectedSubtypes' = [selectedSubtypes EXCEPT ![s] = r.subs]
     /\ filteredBots' = [filteredBots EXCEPT ![s] = r.fb]
     /\ inbox' = [inbox EXCEPT ![s] = <<>>]
     /\ lastOp' = Op("reload", s, <<>>)
     /\ UNCHANGED <<mounted, dataset, localStorage, probe, card, hover>>

\* a writer outside the model (another application version, the user) stores a value
ForeignWrite ==
  \E e \in ForeignWrites :
    /\ localStorage[e.key] # e.newValue
    /\ \A t \in mounted : Len(inbox[t]) < MaxInbox
    /\ localStorage' = [localStorage EXCEPT ![e.key] = e.newValue]
    /\ inbox' = [t \in Sessions |-> IF t \in mounted THEN Append(inbox[t], e) ELSE inbox[t]]
    /\ lastOp' = Op("foreign", 0, <<>>)
    /\ UNCHANGED <<mounted, dataset, selectedErrorValues, selectedSubtypes, filteredBots,
                   probe, card, hover>>

(***************************************************************************)
(* Spec: one session, its user, its data feed and foreign writers.         *)
(***************************************************************************)
Init ==
  /\ InitSessions({1})
  /\ probe = ProbeIdle
  /\ card = CardIdle
  /\ hover = HoverIdle

Next ==
  \/ \E s \in mounted : AddErrorValue(s)
  \/ \E s \in mounted : RemoveErrorValue(s)
  \/ \E s \in mounted : AddSubtype(s)
  \/ \E s \in mounted : RemoveSubtype(s)
  \/ \E s \in mounted : ClearSubtypesForError(s)
  \/ \E s \in mounted : Reset(s)
  \/ \E s \in mounted : SelectAll(s)
  \/ \E s \in mounted : SelectNone(s)
  \/ \E s \in mounted : SelectDefault(s)
  \/ \E s \in mounted : Deliver(s)
  \/ \E s \in mounted : DatasetChange(s)
  \/ \E s \in mounted : Reload(s)
  \/ ForeignWrite

Spec == Init /\ [][Next]_vars

(***************************************************************************)
(* SpecSync: two sessions over the same dataset, notified of each other's  *)
(* writes.                                                                 *)
(***************************************************************************)
InitSync ==
  /\ InitSessions(Sessions)
  /\ dataset[1] = "two" /\ dataset[2] = "two"
  /\ probe = ProbeIdle
  /\ card = CardIdle
  /\ hover = HoverIdle

NextSync ==
  \/ \E s \in mounted : AddErrorValue(s)
  \/ \E s \in mounted : RemoveErrorValue(s)
  \/ \E s \in mounted : AddSubtype(s)
  \/ \E s \in mounted : RemoveSubtype(s)
  \/ \E s \in mounted : SelectNone(s)
  \/ \E s \in mounted : SelectDefault(s)
  \/ \E s \in mounted : Deliver(s)

SpecSync == InitSync /\ [][NextSync]_vars

(***************************************************************************)
(* SpecFilter: getFilteredBots called directly, on any selection.          *)
(***************************************************************************)
MaxProbeSel == 2
MaxProbeSubs == 2

ProbeNames == {CatA, CatB, CatC, CatW, CatX}
ProbeKeys == {KeyATimeout, KeyADenied, KeyBDenied, KeyCTimeout, KeyXTimeout}

InitFilter ==
  /\ mounted = {}
  /\ dataset = [s \in Sessions |-> "one"]
  /\ selectedErrorValues = [s \in Sessions |-> <<>>]
  /\ selectedSubtypes = [s \in Sessions |-> <<>>]
  /\ filteredBots = [s \in Sessions |-> <<>>]
  /\ localStorage = [k \in {SELECTED_ERROR_STORAGE_KEY, SELECTED_SUBTYPES_STORAGE_KEY} |-> Null]
  /\ inbox = [s \in Sessions |-> <<>>]
  /\ lastOp = NoOp
  /\ \E ds \in ProbeDatasets, errorValues \in SeqsUpTo(ProbeNames, MaxProbeSel),
        subtypes \in SeqsUpTo(ProbeKeys, MaxProbeSubs) :
       /\ Distinct(subtypes) = subtypes
       /\ probe = [ProbeIdle EXCEPT !.ds = ds, !.errorValues = errorValues,
                                    !.subtypes = subtypes]
  /\ card = CardIdle
  /\ hover = HoverIdle

\* getFilteredBots(errorValues, subtypes)
ProbeFilter ==
  /\ probe.call = "none"
  /\ probe' = [probe EXCEPT !.call = "filter",
                            !.out = getFilteredBots(probe.ds, probe.errorValues, probe.subtypes)]
  /\ UNCHANGED <<sessionVars, lastOp, card, hover>>

\* the same call after one more key was added to the Set
ProbeAddKey ==
  \E key \in ProbeKeys :
    /\ probe.call # "none"
    /\ ~includes(probe.subtypes, key)
    /\ Len(probe.subtypes) < MaxProbeSubs
    /\ probe' = [probe EXCEPT
                   !.call = "add", !.key = key, !.before = probe.out,
                   !.subtypes = Append(probe.subtypes, key),
                   !.out = getFilteredBots(probe.ds, probe.errorValues,
                                           Append(probe.subtypes, key))]
    /\ UNCHANGED <<sessionVars, lastOp, card, hover>>

\* the same call after a key was deleted from the Set
ProbeRemoveKey ==
  \E key \in ProbeKeys :
    /\ probe.call # "none"
    /\ includes(probe.subtypes, key)
    /\ LET other(k) == k # key
           rest == SelectSeq(probe.subtypes, other)
       IN probe' = [probe EXCEPT
                      !.call = "remove", !.key = key, !.before = probe.out,
                      !.subtypes = rest,
                      !.out = getFilteredBots(probe.ds, probe.errorValues, rest)]
    /\ UNCHANGED <<sessionVars, lastOp, card, hover>>

\* the same call after one more category was appended to the selection
ProbeAddValue ==
  \E value \in ProbeNames :
    /\ probe.call # "none"
    /\ Len(probe.errorValues) <= MaxProbeSel
    /\ probe' = [probe EXCEPT
                   !.call = "addValue", !.key = value, !.before = probe.out,
                   !.errorValues = Append(probe.errorValues, value),
                   !.out = getFilteredBots(probe.ds, Append(probe.errorValues, value),
                                           probe.subtypes)]
    /\ UNCHANGED <<sessionVars, lastOp, card, hover>>

NextFilter == ProbeFilter \/ ProbeAddKey \/ ProbeRemoveKey \/ ProbeAddValue

SpecFilter == InitFilter /\ [][NextFilter]_vars

(***************************************************************************)
(* ErrorDistributionCard, mounted in session 1.  Its props are the         *)
(* distribution of the session's dataset; it reads selectedErrorValues,    *)
(* filteredBots and allBots from the context and keeps expandedErrors and  *)
(* a selectedSubtypes Set of its own.                                      *)
(***************************************************************************)
\* what useSelectedErrorContext hands the card as allBots: the session's records
ContextAllBots(ds) == Datasets[ds].allBots

\* the errorDistributionData prop: the names of the distribution, in order
errorDistributionData(ds) == Datasets[ds].initialErrorDistribution

\* useMemo allErrorBots: the error and warning records of the selected categories
allErrorBots(ds, errorValues) ==
  LET chosen(bot) == isErrorBot(bot) /\ includes(errorValues, bot.status.value)
  IN SelectSeq(ContextAllBots(ds), chosen)

\* the card's own canExpand, computed over its allErrorBots
cardCanExpand(errorBots, errorType) ==
  LET ofType(bot) == bot.status.value = errorType
  IN Len(SubtypesOf(getErrorTable(SelectSeq(errorBots, ofType)), errorType)) > 1

\* the filter callback of locallyFilteredBots
LocalFilter(errorBots, errorValues, selectedSubtypeUuids, filtered) ==
  LET keep(bot) ==
        \/ bot.status.type \in {"pending", "success"}
        \/ IF /\ cardCanExpand(errorBots, bot.status.value)
              /\ includes(errorValues, bot.status.value)
           THEN bot.uuid \in selectedSubtypeUuids
           ELSE includes(errorValues, bot.status.value)
  IN SelectSeq(filtered, keep)

\* useMemo locallyFilteredBots
locallyFilteredBots(errorBots, errorValues, subtypes, filtered) ==
  IF subtypes = <<>> THEN filtered
  ELSE LocalFilter(errorBots, errorValues,
                   SelectedSubtypeUuids(getErrorTable(errorBots), subtypes), filtered)

\* a JavaScript division times 100, kept exact; dividing by zero gives no number
NotANumber == [num |-> 0, den |-> 0]
Percentage(count, total) ==
  IF total = 0 THEN NotANumber ELSE [num |-> count * 100, den |-> total]

\* how many records of bots satisfy a uuid set / a category
CountUuids(bots, uuids) == Cardinality({i \in 1..Len(bots) : bots[i].uuid \in uuids})
CountCategory(bots, name) == Cardinality({i \in 1..Len(bots) : bots[i].status.value = name})

\* subtype.type === item.name ? subtype.message : subtype.type
SubtypeName(entry, name) == IF entry.type = name THEN entry.message ELSE entry.type

\* the slices pushed for the subtypes of an expanded category
SubtypeSlices(name, subtypes, local, total) ==
  LET slice(j) == [name |-> SubtypeName(subtypes[j], name),
                   value |-> CountUuids(local, subtypes[j].botUuids),
                   percentage |-> Percentage(CountUuids(local, subtypes[j].botUuids), total),
                   isSubtype |-> TRUE, parentType |-> name]
      shown(row) == row.value > 0
  IN SelectSeq([j \in 1..Len(subtypes) |-> slice(j)], shown)

\* the slice pushed for a category shown as a whole
MainSlice(name, currentCount, total) ==
  <<[name |-> name, value |-> currentCount, percentage |-> Percentage(currentCount, total),
     isSubtype |-> FALSE, parentType |-> name]>>

\* variant: an expanded category is charted as a whole and by its subtypes
ItemSlices_Both(name, currentCount, subtypes, local, total, expanded) ==
  IF currentCount = 0 THEN <<>>
  ELSE IF expanded /\ Len(subtypes) > 1
       THEN MainSlice(name, currentCount, total)
              \o SubtypeSlices(name, subtypes, local, total)
       ELSE MainSlice(name, currentCount, total)

\* the forEach body of the chart effect for one selected item
ItemSlices(name, currentCount, subtypes, local, total, expanded) ==
  IF currentCount = 0 THEN <<>>
  ELSE IF expanded /\ Len(subtypes) > 1 THEN SubtypeSlices(name, subtypes, local, total)
  ELSE MainSlice(name, currentCount, total)

RECURSIVE Flatten(_)
Flatten(seqs) == IF seqs = <<>> THEN <<>> ELSE Head(seqs) \o Flatten(Tail(seqs))

\* chartData of the chart effect, over filteredErrorBots and the table of allErrorBots
ChartData(items, filteredErrorBots, errorTableData, local, expandedErrors) ==
  Flatten([i \in 1..Len(items) |->
             ItemSlices(items[i], CountCategory(filteredErrorBots, items[i]),
                        SubtypesOf(errorTableData, items[i]), local,
                        Len(filteredErrorBots), items[i] \in expandedErrors)])

\* useEffect "Update filtered data when selection changes or new data arrives"
ChartEffect(ds, errorValues, errorBots, local, expandedErrors) ==
  IF Len(errorValues) = 0 THEN <<>>
  ELSE LET selected(name) == includes(errorValues, name)
       IN ChartData(SelectSeq(errorDistributionData(ds), selected),
                    SelectSeq(local, isErrorBot), getErrorTable(errorBots), local,
                    expandedErrors)

\* `count > 0 ? (part / whole) * 100 : 0` of expandedErrorData
Zero == [num |-> 0, den |-> 1]
GuardedPercentage(count, part, whole) == IF count > 0 THEN Percentage(part, whole) ELSE Zero

\* the rows expandedErrorData pushes for one item of the distribution
ItemRows(name, currentFilteredCount, subtypes, local, total, expanded) ==
  <<[name |-> name, value |-> currentFilteredCount,
     percentage |-> GuardedPercentage(currentFilteredCount, currentFilteredCount, total),
     isSubtype |-> FALSE, parentType |-> name]>>
  \o (IF expanded /\ Len(subtypes) > 1
      THEN [j \in 1..Len(subtypes) |->
              [name |-> SubtypeName(subtypes[j], name),
               value |-> CountUuids(local, subtypes[j].botUuids),
               percentage |-> GuardedPercentage(currentFilteredCount,
                                                CountUuids(local, subtypes[j].botUuids),
                                                currentFilteredCount),
               isSubtype |-> TRUE, parentType |-> name]]
      ELSE <<>>)

\* useMemo expandedErrorData: the rows of the legend
ExpandedRows(items, filteredErrorBots, errorTableData, local, expandedErrors) ==
  Flatten([i \in 1..Len(items) |->
             ItemRows(items[i], CountCategory(filteredErrorBots, items[i]),
                      SubtypesOf(errorTableData, items[i]), local,
                      Len(filteredErrorBots), items[i] \in expandedErrors)])

expandedErrorData(ds, errorBots, local, expandedErrors) ==
  ExpandedRows(errorDistributionData(ds), SelectSeq(local, isErrorBot),
               getErrorTable(errorBots), local, expandedErrors)

RECURSIVE Sum(_)
Sum(values) == IF values = <<>> THEN 0 ELSE Head(values) + Sum(Tail(values))

\* chartData.reduce((sum, item) => sum + item.value, 0)
Total(chartData) == Sum([i \in 1..Len(chartData) |-> chartData[i].value])

\* the card after the render that follows a change: both chart states set by the effect
Charted(c, chartData) ==
  [c EXCEPT !.filteredData = chartData, !.filteredTotal = Total(chartData)]

CardRender(ds, errorValues, filtered, errorBots, c) ==
  Charted(c, ChartEffect(ds, errorValues, errorBots,
                         locallyFilteredBots(errorBots, errorValues, c.selectedSubtypes,
                                             filtered),
                         c.expandedErrors))

\* setExpandedErrors of toggleExpanded
toggleExpanded(c, errorType) ==
  [c EXCEPT !.expandedErrors = IF errorType \in @ THEN @ \ {errorType}
                               ELSE @ \union {errorType}]

\* setSelectedSubtypes of handleSubtypeClick, on the card's own Set
handleSubtypeClick(c, parentType, subtypeName) ==
  LET subtypeKey == SubtypeKey(parentType, subtypeName)
      other(k) == k # subtypeKey
  IN [c EXCEPT !.selectedSubtypes = IF includes(@, subtypeKey) THEN SelectSeq(@, other)
                                    ELSE Append(@, subtypeKey)]

\* the subtype rows the card renders under an item
RenderedSubtypes(errorBots, name, expandedErrors) ==
  IF name \in expandedErrors /\ cardCanExpand(errorBots, name)
  THEN {SubtypeName(entry, name) :
          entry \in ToSet(SubtypesOf(getErrorTable(errorBots), name))}
  ELSE {}

\* a handler of the card ran: the context settles on w and the card renders next
CardCommit(w, next, op) ==
  \E r \in {Settle(dataset[1], w)} :
     /\ selectedErrorValues' = [selectedErrorValues EXCEPT ![1] = r.err]
     /\ selectedSubtypes' = [selectedSubtypes EXCEPT ![1] = r.subs]
     /\ filteredBots' = [filteredBots EXCEPT ![1] = r.fb]
     /\ localStorage' = r.store
     /\ card' = CardRender(dataset[1], r.err, r.fb, allErrorBots(dataset[1], r.err), next)
     /\ lastOp' = op
     /\ UNCHANGED <<mounted, dataset, inbox, probe, hover>>

HandleLegendClick ==
  \E name \in ToSet(errorDistributionData(dataset[1])), w \in {World(1)} :
    CardCommit(IF includes(w.err, name)
               THEN removeErrorValue(dataset[1], Closure(w), w, name)
               ELSE addErrorValue(dataset[1], Closure(w), w, name),
               card, Op("handleLegendClick", 1, name))

\* the expand button exists only for an item the card can expand
ToggleExpanded ==
  \E name \in ToSet(errorDistributionData(dataset[1])) :
    /\ cardCanExpand(allErrorBots(dataset[1], selectedErrorValues[1]), name)
    /\ CardCommit(World(1), toggleExpanded(card, name),
                  Op(IF name \in card.expandedErrors THEN "collapse" ELSE "expand", 1, name))

HandleSubtypeClick ==
  \E name \in ToSet(errorDistributionData(dataset[1])) :
    \E subtypeName \in RenderedSubtypes(allErrorBots(dataset[1], selectedErrorValues[1]),
                                        name, card.expandedErrors) :
      CardCommit(World(1), handleSubtypeClick(card, name, subtypeName),
                 Op("handleSubtypeClick", 1, SubtypeKey(name, subtypeName)))

HandleSelectAll ==
  \E w \in {World(1)} :
    CardCommit(selectAll(dataset[1], Closure(w), w, errorDistributionData(dataset[1])),
               card, Op("handleSelectAll", 1, <<>>))

HandleSelectNone ==
  \E w \in {World(1)} :
    CardCommit(selectNone(dataset[1], Closure(w), w), card, Op("handleSelectNone", 1, <<>>))

HandleSelectDefault ==
  \E w \in {World(1)} :
    CardCommit(selectDefault(dataset[1], Closure(w), w), card,
               Op("handleSelectDefault", 1, <<>>))

(***************************************************************************)
(* SpecCard: one session and the user of its distribution card.            *)
(***************************************************************************)
InitCard ==
  /\ InitSessions({1})
  /\ probe = ProbeIdle
  /\ card = CardRender(dataset[1], selectedErrorValues[1], filteredBots[1],
                       allErrorBots(dataset[1], selectedErrorValues[1]), CardIdle)
  /\ hover = HoverIdle

NextCard ==
  \/ HandleLegendClick
  \/ ToggleExpanded
  \/ HandleSubtypeClick
  \/ HandleSelectAll
  \/ HandleSelectNone
  \/ HandleSelectDefault

SpecCard == InitCard /\ [][NextCard]_vars

(***************************************************************************)
(* SpecHydrate: sessions constructed over entries of any content.          *)
(***************************************************************************)
\* the characters of the text denied
DeniedChars == <<"d", "e", "n", "i", "e", "d">>

\* what the categories entry may hold when a session starts
HydrateErrorValues ==
  {Null, EmptyText, Garbage, JsonObject, JsonString(DeniedChars), JSONstringify(<<>>),
   JSONstringify(<<CatX>>), JSONstringify(<<CatA, CatX, CatA>>)}

\* what the subtypes entry may hold when a session starts
HydrateSubtypes ==
  {Null, EmptyText, Garbage, JsonObject, JsonString(DeniedChars),
   JSONstringify(<<KeyADenied, KeyADenied>>), JSONstringify(<<KeyXTimeout>>)}

InitHydrate ==
  /\ mounted = {}
  /\ dataset \in [Sessions -> SessionDatasets]
  /\ selectedErrorValues = [s \in Sessions |-> <<>>]
  /\ selectedSubtypes = [s \in Sessions |-> <<>>]
  /\ filteredBots = [s \in Sessions |-> <<>>]
  /\ \E ev \in HydrateErrorValues, st \in HydrateSubtypes :
       localStorage = [k \in {SELECTED_ERROR_STORAGE_KEY, SELECTED_SUBTYPES_STORAGE_KEY} |->
                         IF k = SELECTED_ERROR_STORAGE_KEY THEN ev ELSE st]
  /\ inbox = [s \in Sessions |-> <<>>]
  /\ lastOp = NoOp
  /\ probe = ProbeIdle
  /\ card = CardIdle
  /\ hover = HoverIdle

\* a tab is opened: the provider runs its state initializers and first effects
Mount(s) ==
  /\ s \notin mounted
  /\ \E r \in {Hydrated(dataset[s], localStorage)} :
       /\ mounted' = mounted \union {s}
       /\ selectedErrorValues' = [selectedErrorValues EXCEPT ![s] = r.err]
       /\ selectedSubtypes' = [selectedSubtypes EXCEPT ![s] = r.subs]
       /\ filteredBots' = [filteredBots EXCEPT ![s] = r.fb]
       /\ lastOp' = Op("mount", s, <<>>)
       /\ UNCHANGED <<dataset, localStorage, inbox, probe, card, hover>>

NextHydrate == \E s \in Sessions : Mount(s)

SpecHydrate == InitHydrate /\ [][NextHydrate]_vars

(***************************************************************************)
(* Properties of the filter (SpecFilter).                                  *)
(***************************************************************************)
ProbeBots == Datasets[probe.ds].allBots

\* the distinct subtype labels of the error and warning records of a category
LabelsOf(ds, category) ==
  {LabelOf(Datasets[ds].allBots[i]) :
     i \in {k \in 1..Len(Datasets[ds].allBots) :
              /\ isErrorBot(Datasets[ds].allBots[k])
              /\ Datasets[ds].allBots[k].status.value = category}}

Expandable(ds, category) == Cardinality(LabelsOf(ds, category)) > 1

\* C2: with no subtype selected, the filter returns exactly the records that are
\* pending or success or whose status.value is selected, in allBots order; a selected
\* expandable category is not narrowed.
C2_NoSubtypeMeansCategoryFilterOnly ==
  (probe.call # "none" /\ probe.subtypes = <<>>) =>
    LET kept(bot) == \/ bot.status.type \in {"pending", "success"}
                     \/ bot.status.value \in ToSet(probe.errorValues)
    IN probe.out = SelectSeq(ProbeBots, kept)

C2_Witness ==
  /\ probe.call = "filter"
  /\ probe.ds = "one"
  /\ probe.subtypes = <<>>
  /\ probe.errorValues = <<CatA>>
  /\ [i \in 1..Len(probe.out) |-> probe.out[i].uuid] = <<"u4", "u1", "u2", "u5">>

\* C3: whatever the subtype keys, no error or warning record of an unselected category
\* is in the output; with no category selected the output has no error or warning
\* record at all.
C3_NoRecordOfUnselectedCategory ==
  probe.call # "none" =>
    /\ \A i \in 1..Len(probe.out) :
         isErrorBot(probe.out[i]) => probe.out[i].status.value \in ToSet(probe.errorValues)
    /\ probe.errorValues = <<>> => \A i \in 1..Len(probe.out) : ~isErrorBot(probe.out[i])

C3_Witness ==
  /\ probe.call = "add"
  /\ probe.ds = "one"
  /\ probe.errorValues = <<CatB>>
  /\ probe.subtypes = <<KeyATimeout, KeyXTimeout>>
  /\ [i \in 1..Len(probe.out) |-> probe.out[i].uuid] = <<"u4", "u3", "u5">>

\* C4: when at least one subtype key is selected, a record of a selected expandable
\* category is in the output exactly when its composite key is selected.
C4_ExpandableNarrowedToSelectedKeys ==
  (probe.call # "none" /\ Len(probe.subtypes) > 0) =>
    \A i \in 1..Len(ProbeBots) :
      LET bot == ProbeBots[i]
      IN (/\ isErrorBot(bot)
          /\ bot.status.value \in ToSet(probe.errorValues)
          /\ Expandable(probe.ds, bot.status.value))
         => (bot \in ToSet(probe.out)
               <=> SubtypeKey(bot.status.value, LabelOf(bot)) \in ToSet(probe.subtypes))

C4_Witness ==
  /\ probe.call = "filter"
  /\ probe.ds = "one"
  /\ probe.errorValues = <<CatA, CatB>>
  /\ probe.subtypes = <<KeyATimeout>>
  /\ [i \in 1..Len(probe.out) |-> probe.out[i].uuid] = <<"u4", "u1", "u3", "u5">>

\* C18: with no subtype selected, every record the filter returns for a selection is
\* also returned for the selection enlarged by one more category.
C18_FilterMonotoneInCategories ==
  (probe.call = "addValue" /\ probe.subtypes = <<>>) =>
    ToSet(probe.before) \subseteq ToSet(probe.out)

\* B was added to the selection [A]: the record of B joined those of A
C18_Witness ==
  /\ probe.call = "addValue"
  /\ probe.ds = "one"
  /\ probe.subtypes = <<>>
  /\ probe.errorValues = <<CatA, CatB>>
  /\ [i \in 1..Len(probe.before) |-> probe.before[i].uuid] = <<"u4", "u1", "u2", "u5">>
  /\ [i \in 1..Len(probe.out) |-> probe.out[i].uuid] = <<"u4", "u1", "u3", "u2", "u5">>

\* C19: over the ten records (six of A: three timeout, three denied; four of B: all
\* denied) canExpand(A) is true and canExpand(B) is false, the filter returns 6 records
\* when only A is selected and 3 when the key A::timeout is selected as well.
C19_TenRecordScenario ==
  (probe.ds = "ten" /\ probe.call # "none" /\ ToSet(probe.errorValues) = {CatA}) =>
    /\ canExpand("ten", CatA)
    /\ ~canExpand("ten", CatB)
    /\ probe.subtypes = <<>> => Len(probe.out) = 6
    /\ probe.subtypes = <<KeyATimeout>> => Len(probe.out) = 3

\* A::timeout was added to the selection of A alone
C19_Witness ==
  /\ probe.call = "add"
  /\ probe.ds = "ten"
  /\ probe.errorValues = <<CatA>>
  /\ probe.key = KeyATimeout
  /\ probe.subtypes = <<KeyATimeout>>
  /\ Len(probe.before) = 6
  /\ [i \in 1..Len(probe.out) |-> probe.out[i].uuid] = <<"t1", "t4", "t8">>

\* a key is inert when no category it belongs to is both expandable and selected
Inert(ds, errorValues, key) ==
  \A category \in ToSet(Datasets[ds].initialErrorDistribution) \cup ToSet(errorValues) :
    startsWith(key, category \o Sep) =>
      ~(Expandable(ds, category) /\ category \in ToSet(errorValues))

\* C5: adding or removing an inert subtype key never changes the output of the filter.
C5_InertKeyLeavesOutputUnchanged ==
  (probe.call \in {"add", "remove"} /\ Inert(probe.ds, probe.errorValues, probe.key)) =>
    probe.out = probe.before

(***************************************************************************)
(* Properties of a session (Spec).                                         *)
(***************************************************************************)
\* the names of initialErrorDistribution of a session
Available(s) == ToSet(Datasets[dataset[s]].initialErrorDistribution)

StoredErrors == localStorage[SELECTED_ERROR_STORAGE_KEY]
StoredSubs == localStorage[SELECTED_SUBTYPES_STORAGE_KEY]

C6_DatasetChangePrunesAndPersists ==
  \A s \in mounted :
    (/\ lastOp.op = "dataset"
     /\ lastOp.s = s
     /\ \E i \in 1..Len(lastOp.arg) : lastOp.arg[i] \notin Available(s))
    => LET available(value) == value \in Available(s)
       IN /\ selectedErrorValues[s] = SelectSeq(lastOp.arg, available)
          /\ StoredErrors = JSONstringify(selectedErrorValues[s])
          /\ \A i \in 1..Len(lastOp.arg) :
               lastOp.arg[i] \notin Available(s) =>
                 /\ lastOp.arg[i] \notin ToSet(selectedErrorValues[s])
                 /\ lastOp.arg[i] \notin ToSet(StoredErrors.items)

C6_Witness ==
  /\ lastOp = Op("dataset", 1, <<CatA, CatB>>)
  /\ dataset[1] = "two"
  /\ selectedErrorValues[1] = <<CatA>>
  /\ StoredErrors = JSONstringify(<<CatA>>)

CategoryCalls == {"addErrorValue", "removeErrorValue", "selectAll", "selectNone", "selectDefault"}
SubtypeCalls == {"addSubtype", "removeSubtype", "clearSubtypesForError", "selectNone",
                 "selectDefault"}

\* C7 as claimed: after every mutating call both entries are the JSON lists of the
\* session's selectedErrorValues and selectedSubtypes.
C7_BothEntriesHoldTheSelection ==
  \A s \in mounted :
    (lastOp.op \in CategoryCalls \cup SubtypeCalls /\ lastOp.s = s) =>
      /\ StoredErrors = JSONstringify(selectedErrorValues[s])
      /\ StoredSubs = JSONstringify(selectedSubtypes[s])

\* C7 amended: after a mutating call the entry of each part of the selection the call
\* sets is the JSON list of that part.
C7_WrittenEntryHoldsTheSelection ==
  \A s \in mounted :
    /\ (lastOp.op \in CategoryCalls /\ lastOp.s = s) =>
         StoredErrors = JSONstringify(selectedErrorValues[s])
    /\ (lastOp.op \in SubtypeCalls /\ lastOp.s = s) =>
         StoredSubs = JSONstringify(selectedSubtypes[s])

C7_Witness ==
  /\ lastOp.op = "addSubtype"
  /\ selectedSubtypes[1] = <<KeyBDenied, KeyATimeout>>
  /\ StoredSubs = JSONstringify(<<KeyBDenied, KeyATimeout>>)
  /\ StoredErrors = Null

\* the session of the last operation dispatched a foreign event of the categories key
CategoriesNotified(s) ==
  /\ lastOp.op = "storage"
  /\ lastOp.s = s
  /\ lastOp.arg # <<>>
  /\ lastOp.arg.key = SELECTED_ERROR_STORAGE_KEY

\* C8: a notification of the categories key whose value parses as a list makes the
\* selection exactly the entries of the list that are available, and filteredBots the
\* filter of that selection.
C8_NotifiedListIsValidatedAndAdopted ==
  \A s \in mounted :
    (CategoriesNotified(s) /\ lastOp.arg.newValue.kind = "list") =>
      LET known(value) == value \in Available(s)
      IN /\ selectedErrorValues[s] = SelectSeq(lastOp.arg.newValue.items, known)
         /\ filteredBots[s] =
              getFilteredBots(dataset[s], selectedErrorValues[s], selectedSubtypes[s])

C8_Witness ==
  /\ CategoriesNotified(1)
  /\ lastOp.arg.newValue = JSONstringify(<<CatB, CatX, CatA>>)
  /\ dataset[1] = "one"
  /\ selectedErrorValues[1] = <<CatB, CatA>>
  /\ selectedSubtypes[1] # <<>>

\* the available categories that are not on the non-critical list
DefaultSelection(s) ==
  LET shown(value) == value \notin ToSet(NON_CRITICAL_ERRORS)
  IN SelectSeq(Datasets[dataset[s]].initialErrorDistribution, shown)

Unparsable(v) == v.kind \in {"garbage", "object"}
FullyForeign(s, v) == v.kind = "list" /\ ToSet(v.items) \cap Available(s) = {}

\* C9: an unparsable or fully foreign notification of the categories key makes the
\* session adopt the default selection (the available categories that are not on the
\* non-critical list), so the selection is not left empty.
C9_BadNotificationGivesDefault ==
  \A s \in mounted :
    (/\ CategoriesNotified(s)
     /\ Unparsable(lastOp.arg.newValue) \/ FullyForeign(s, lastOp.arg.newValue))
    => selectedErrorValues[s] = DefaultSelection(s)

(***************************************************************************)
(* Properties of two sessions (SpecSync).                                  *)
(***************************************************************************)
Quiet == \A s \in Sessions : inbox[s] = <<>>

C11_BulkSelectionsResetAndPersist ==
  \A s \in mounted :
    /\ lastOp = Op("selectNone", s, <<>>) =>
         /\ selectedErrorValues[s] = <<>>
         /\ selectedSubtypes[s] = <<>>
         /\ StoredErrors = JSONstringify(<<>>)
         /\ StoredSubs = JSONstringify(<<>>)
    /\ lastOp = Op("selectDefault", s, <<>>) =>
         /\ selectedErrorValues[s] = DefaultSelection(s)
         /\ selectedSubtypes[s] = <<>>
         /\ StoredErrors = JSONstringify(DefaultSelection(s))
         /\ StoredSubs = JSONstringify(<<>>)

C11_Witness ==
  /\ lastOp = Op("selectDefault", 1, <<>>)
  /\ dataset[1] = "one"
  /\ selectedErrorValues[1] = <<CatA, CatB>>
  /\ selectedSubtypes[1] = <<>>
  /\ StoredErrors = JSONstringify(<<CatA, CatB>>)
  /\ StoredSubs = JSONstringify(<<>>)

\* the category a composite key was built for: what precedes its first separator
ParentOf(key) ==
  LET first == CHOOSE k \in 1..Len(key) :
                 /\ <<key[k]>> = Sep
                 /\ \A j \in 1..(k - 1) : <<key[j]>> # Sep
  IN SubSeq(key, 1, first - 1)

C15_FlagIffSelectionDiffersFromAll ==
  \A s \in mounted :
    botsFilteredByError(dataset[s], selectedErrorValues[s], selectedSubtypes[s])
      <=> ~(/\ ToSet(selectedErrorValues[s]) = Available(s)
            /\ selectedSubtypes[s] = <<>>)

\* C17: when both entries hold what a session persisted (the JSON lists of its
\* selectedErrorValues and selectedSubtypes), constructing the session anew from them
\* over the same dataset gives the same selectedErrorValues and selectedSubtypes.
C17_HydrationRestoresPersistedSelection ==
  [][\A s \in mounted :
       (/\ lastOp'.op = "reload" /\ lastOp'.s = s
        /\ StoredErrors = JSONstringify(selectedErrorValues[s])
        /\ StoredSubs = JSONstringify(selectedSubtypes[s]))
       => /\ selectedErrorValues'[s] = selectedErrorValues[s]
          /\ selectedSubtypes'[s] = selectedSubtypes[s]]_vars

\* a selection with a repeated category and two subtype keys came back from storage
C17_Witness ==
  /\ lastOp = Op("reload", 1, <<>>)
  /\ selectedErrorValues[1] = <<CatA, CatA>>
  /\ selectedSubtypes[1] = <<KeyATimeout, KeyBDenied>>
  /\ StoredErrors = JSONstringify(<<CatA, CatA>>)
  /\ StoredSubs = JSONstringify(<<KeyATimeout, KeyBDenied>>)

(***************************************************************************)
(* Properties of the distribution card (SpecCard).                         *)
(***************************************************************************)
CardNames == ToSet(errorDistributionData(dataset[1]))
CardErrorBots == allErrorBots(dataset[1], selectedErrorValues[1])

KeysOf(name) ==
  {key \in ToSet(card.selectedSubtypes) \union ToSet(selectedSubtypes[1]) :
     startsWith(key, name \o Sep)}

\* C13: once an expanded category has been collapsed, no selected subtype key of that
\* category remains.
C13_CollapseClearsSubtypeKeys ==
  lastOp.op = "collapse" => KeysOf(lastOp.arg) = {}

(***************************************************************************)
(* Properties of hydration (SpecHydrate).                                  *)
(***************************************************************************)
\* an entry that is neither absent nor the JSON text of an array
Malformed(v) == v.kind \notin {"null", "empty", "list"}

\* C16: a session started over an absent or malformed categories entry has the default
\* selection (the available categories not on the non-critical list), and one started
\* over an absent or malformed subtypes entry has no subtype selected.
C16_BadEntriesGiveDefaults ==
  \A s \in mounted :
    /\ (~Truthy(StoredErrors) \/ Malformed(StoredErrors))
         => selectedErrorValues[s] = DefaultSelection(s)
    /\ (~Truthy(StoredSubs) \/ Malformed(StoredSubs)) => selectedSubtypes[s] = <<>>

\* the records the card works on, and its error and warning records: the filtered scope
CardLocal ==
  locallyFilteredBots(CardErrorBots, selectedErrorValues[1], card.selectedSubtypes,
                      filteredBots[1])
CardScope == SelectSeq(CardLocal, isErrorBot)
CardLegend == expandedErrorData(dataset[1], CardErrorBots, CardLocal, card.expandedErrors)

\* percentage and count sums of a list of rows over a scope of n records
SumsTo100(rows, n) ==
  /\ \A i \in 1..Len(rows) : rows[i].percentage.den = n
  /\ Sum([i \in 1..Len(rows) |-> rows[i].percentage.num]) = 100 * n
  /\ Sum([i \in 1..Len(rows) |-> rows[i].value]) = n

AllZero(rows) ==
  \A i \in 1..Len(rows) : rows[i].percentage.num = 0 /\ rows[i].percentage.den # 0

botsByErrorType(local, name) ==
  LET hasValue(bot) == bot.status.value = name
  IN SelectSeq(local, hasValue)

\* botUuids of the chart entry or legend row of a subtype
BotUuidsOf(errorTableData, row) ==
  UNION {entry.botUuids :
           entry \in {e \in ToSet(SubtypesOf(errorTableData, row.parentType)) :
                        SubtypeName(e, row.parentType) = row.name}}

\* botsWithError of handleCellHover and handleChartCellHover
botsWithError(errorTableData, local, row) ==
  IF row.isSubtype
  THEN LET listed(bot) == bot.uuid \in BotUuidsOf(errorTableData, row)
       IN SelectSeq(local, listed)
  ELSE botsByErrorType(local, row.name)

Target(row) == [name |-> row.name, isSubtype |-> row.isSubtype, parentType |-> row.parentType]

\* the Pie cells, and the legend rows of subtypes: what carries onMouseEnter/onMouseLeave
HoverTargets(chart, legend) ==
  {Target(chart[i]) : i \in 1..Len(chart)}
    \union {Target(legend[i]) : i \in {j \in 1..Len(legend) : legend[j].isSubtype}}

\* counting to "more than one"
Saturate(n) == IF n >= 2 THEN 2 ELSE n + 1

\* an event reached the card: events less than HoverWait apart belong to one burst
Event(h, bots) ==
  [h EXCEPT !.lastEvent = bots,
            !.updatesOfEvents = IF h.sinceEvent >= HoverWait THEN 0 ELSE @,
            !.sinceEvent = 0]

\* variant: the timer of a pending call is kept, only a new call arms one
debounce_KeepsTimer(h, bots) ==
  [h EXCEPT !.timer = IF @ = 0 THEN HoverWait ELSE @, !.lastArgs = bots,
            !.updatesOfCalls = IF h.sinceCall >= HoverWait THEN 0 ELSE @,
            !.callsOfBurst = IF h.sinceCall >= HoverWait THEN 1 ELSE Saturate(@),
            !.sinceCall = 0]

\* debounce(fn, 100) called with bots: the timer restarts, the last arguments are kept
debounce(h, bots) ==
  [h EXCEPT !.timer = HoverWait, !.lastArgs = bots,
            !.updatesOfCalls = IF h.sinceCall >= HoverWait THEN 0 ELSE @,
            !.callsOfBurst = IF h.sinceCall >= HoverWait THEN 1 ELSE Saturate(@),
            !.sinceCall = 0]

handleCellHover(h, target, bots) ==
  [(IF Len(bots) > 0 THEN debounce(Event(h, bots), bots) ELSE Event(h, bots))
     EXCEPT !.over = target]

handleCellLeave(h) == [debounce(Event(h, <<>>), <<>>) EXCEPT !.over = NoTarget]

\* the timer of the debounce ran out: (bots) => setHoveredBots(bots)
Fire(h) ==
  [h EXCEPT !.timer = 0, !.hoveredBots = h.lastArgs,
            !.updatesOfEvents = Saturate(@), !.updatesOfCalls = Saturate(@)]

Elapse(h) ==
  [h EXCEPT !.timer = IF @ > 0 THEN @ - 1 ELSE 0,
            !.sinceEvent = IF @ < HoverWait THEN @ + 1 ELSE @,
            !.sinceCall = IF @ < HoverWait THEN @ + 1 ELSE @]

\* variant: the cleanup leaves the pending call alone
Cleanup_NoCancel(h) == [h EXCEPT !.mounted = FALSE, !.over = NoTarget]

\* the cleanup of the effect: debouncedSetHoveredBots.cancel()
Cleanup(h) == [h EXCEPT !.mounted = FALSE, !.over = NoTarget, !.timer = 0]

HoverStep(h, op) ==
  /\ hover' = h
  /\ lastOp' = op
  /\ UNCHANGED <<sessionVars, probe, card>>

HandleCellHover ==
  \E target \in HoverTargets(card.filteredData,
                             expandedErrorData(dataset[1],
                               allErrorBots(dataset[1], selectedErrorValues[1]),
                               locallyFilteredBots(
                                 allErrorBots(dataset[1], selectedErrorValues[1]),
                                 selectedErrorValues[1], card.selectedSubtypes,
                                 filteredBots[1]),
                               card.expandedErrors)) :
    /\ hover.mounted
    /\ hover.over = NoTarget
    /\ HoverStep(handleCellHover(hover, target,
                   botsWithError(getErrorTable(allErrorBots(dataset[1],
                                                            selectedErrorValues[1])),
                                 locallyFilteredBots(
                                   allErrorBots(dataset[1], selectedErrorValues[1]),
                                   selectedErrorValues[1], card.selectedSubtypes,
                                   filteredBots[1]),
                                 target)),
                 Op("hover", 1, target))

HandleCellLeave ==
  /\ hover.mounted
  /\ hover.over # NoTarget
  /\ HoverStep(handleCellLeave(hover), Op("leave", 1, hover.over))

\* one tick passes; a timer that reaches zero invokes the debounced function
Tick ==
  /\ hover.timer > 0 \/ hover.sinceEvent < HoverWait \/ hover.sinceCall < HoverWait
  /\ IF hover.timer = 1
     THEN HoverStep(Fire(Elapse(hover)), Op("fire", 1, hover.lastArgs))
     ELSE HoverStep(Elapse(hover), Op("tick", 1, <<>>))

Unmount ==
  /\ hover.mounted
  /\ HoverStep(Cleanup(hover), Op("unmount", 1, <<>>))

\* the expand button and the checkbox of a subtype lie outside the hovered elements
HoverToggleExpanded == hover.mounted /\ hover.over = NoTarget /\ ToggleExpanded
HoverSubtypeClick == hover.mounted /\ hover.over = NoTarget /\ HandleSubtypeClick

InitHover == InitCard

NextHover ==
  \/ HandleCellHover
  \/ HandleCellLeave
  \/ Tick
  \/ Unmount
  \/ HoverToggleExpanded
  \/ HoverSubtypeClick

SpecHover == InitHover /\ [][NextHover]_vars

\* C21 as stated: the events of a burst (hover and leave events less than HoverWait apart)
\* lead to one update of hoveredBots, which carries the records of the last event, and
\* no update happens once the card is torn down.
C21_EventsOfABurstGiveOneUpdate ==
  /\ hover.updatesOfEvents <= 1
  /\ lastOp.op = "fire" => hover.hoveredBots = hover.lastEvent
  /\ lastOp.op = "fire" => hover.mounted
  /\ ~hover.mounted => hover.timer = 0

\* C21: the calls of the debounced function in a burst (hovers over an entry that has
\* records, and leaves, less than HoverWait apart) lead to one update of hoveredBots,
\* which carries the records of the last event; a torn down card has no call pending
\* and no update happens for it.
C21_CallsOfABurstGiveOneUpdate ==
  /\ hover.updatesOfCalls <= 1
  /\ lastOp.op = "fire" => hover.hoveredBots = hover.lastEvent
  /\ lastOp.op = "fire" => hover.mounted
  /\ ~hover.mounted => hover.timer = 0

\* a leave and a hover over an entry with records were coalesced into one update
C21_Witness ==
  /\ lastOp.op = "fire"
  /\ hover.callsOfBurst = 2
  /\ hover.updatesOfCalls = 1
  /\ hover.hoveredBots # <<>>
  /\ hover.hoveredBots = hover.lastEvent

(***************************************************************************)
(* SpecMisuse: the card rendered under a provider or without one.          *)
(***************************************************************************)
\* what useContext gives a component that has no SelectedErrorProvider above it
Undefined == [provided |-> FALSE]

\* the context a card placed in the tree of session s receives
useSelectedErrorContext(s, live) ==
  IF s \in live THEN [provided |-> TRUE, s |-> s] ELSE Undefined

MustBeUsedWithin == "ErrorDistributionCard must be used within a SelectedErrorProvider"
ContextFields ==
  {"selectedErrorValues", "addErrorValue", "removeErrorValue", "selectAll", "selectNone",
   "selectDefault", "filteredBots", "allBots"}
CardHandlers ==
  {"handleCellHover", "handleCellLeave", "handleCellClick", "handleChartCellHover",
   "handleChartCellClick", "handleLegendClick", "handleSubtypeClick", "toggleExpanded",
   "handleSelectAll", "handleSelectNone", "handleSelectDefault"}

\* variant: the context is destructured before it is tested
ErrorDistributionCard_ChecksLate(context) ==
  IF context = Undefined
  THEN [error |-> MustBeUsedWithin, read |-> ContextFields, installed |-> {}]
  ELSE [error |-> "none", read |-> ContextFields, installed |-> CardHandlers]

\* the body of the component, down to its handlers: what it threw, which fields of the
\* context it read and which handlers it created
ErrorDistributionCard(context) ==
  IF context = Undefined
  THEN [error |-> MustBeUsedWithin, read |-> {}, installed |-> {}]
  ELSE [error |-> "none", read |-> ContextFields, installed |-> CardHandlers]

\* React renders a card in the tree of session s
RenderCard(s) ==
  \E out \in {ErrorDistributionCard(useSelectedErrorContext(s, mounted))} :
    /\ lastOp' = Op("renderCard", s, out)
    /\ card' = IF out.error = "none" /\ s = 1
               THEN CardRender(dataset[1], selectedErrorValues[1], filteredBots[1],
                               allErrorBots(dataset[1], selectedErrorValues[1]), card)
               ELSE card
    /\ UNCHANGED <<sessionVars, probe, hover>>

NextMisuse ==
  \/ \E s \in Sessions : Mount(s)
  \/ \E s \in Sessions : RenderCard(s)

SpecMisuse == InitHydrate /\ [][NextMisuse]_vars

C23_FilteredBotsFollowTheSelection ==
  \A s \in mounted :
    filteredBots[s] = getFilteredBots(dataset[s], selectedErrorValues[s], selectedSubtypes[s])

\* selectNone has emptied both selections of session 1 and only the records that are
\* neither errors nor warnings are left
C23_Witness ==
  /\ lastOp = Op("selectNone", 1, <<>>)
  /\ dataset[1] = "one"
  /\ selectedErrorValues[1] = <<>>
  /\ selectedSubtypes[1] = <<>>
  /\ Len(filteredBots[1]) = 2
  /\ \A i \in 1..Len(filteredBots[1]) : ~isErrorBot(filteredBots[1][i])

(***************************************************************************)
(* SpecKeys: composite keys built, selected and cleared over categories    *)
(* and messages of any content.                                            *)
(***************************************************************************)
KeyDatasets == {"one", "two", "nested"}
MaxKeySel == 2
MaxKeySubs == 2

InitKeys ==
  /\ mounted = {}
  /\ dataset = [s \in Sessions |-> "one"]
  /\ selectedErrorValues = [s \in Sessions |-> <<>>]
  /\ selectedSubtypes = [s \in Sessions |-> <<>>]
  /\ filteredBots = [s \in Sessions |-> <<>>]
  /\ localStorage = [k \in {SELECTED_ERROR_STORAGE_KEY, SELECTED_SUBTYPES_STORAGE_KEY} |-> Null]
  /\ inbox = [s \in Sessions |-> <<>>]
  /\ lastOp = NoOp
  /\ \E ds \in KeyDatasets :
       \E errorValues \in SeqsUpTo(ToSet(Datasets[ds].initialErrorDistribution), MaxKeySel) :
         probe = [ProbeIdle EXCEPT !.ds = ds, !.errorValues = errorValues,
                                   !.out = getFilteredBots(ds, errorValues, <<>>)]
  /\ card = CardIdle
  /\ hover = HoverIdle

\* the state of a provider holding the selection of the probe
KeyWorld ==
  [err |-> probe.errorValues, subs |-> probe.subtypes, fb |-> probe.out,
   store |-> localStorage, out |-> <<>>]

\* addSubtype(`${parentType}::${subtypeName}`) for a subtype entry of the taxonomy
KeysAddSubtype ==
  \E j \in 1..Len(ErrorTables[probe.ds]), w \in {KeyWorld} :
    /\ Len(probe.subtypes) < MaxKeySubs
    /\ \E r \in {addSubtype(probe.ds, Closure(w), w, EntryKey(ErrorTables[probe.ds][j]))} :
         probe' = [probe EXCEPT
                     !.call = "addSubtype",
                     !.key = [errorType |-> ErrorTables[probe.ds][j].originalType,
                              subtypeKey |-> EntryKey(ErrorTables[probe.ds][j])],
                     !.before = probe.subtypes,
                     !.subtypes = r.subs,
                     !.out = getFilteredBots(probe.ds, probe.errorValues, r.subs)]
    /\ UNCHANGED <<sessionVars, lastOp, card, hover>>

\* clearSubtypesForError(errorType) for a category of the distribution
KeysClearSubtypes ==
  \E errorType \in ToSet(Datasets[probe.ds].initialErrorDistribution), w \in {KeyWorld} :
    /\ probe.subtypes # <<>>
    /\ \E r \in {clearSubtypesForError(probe.ds, Closure(w), w, errorType)} :
         probe' = [probe EXCEPT
                     !.call = "clearSubtypesForError",
                     !.key = [errorType |-> errorType, subtypeKey |-> <<>>],
                     !.before = probe.subtypes,
                     !.subtypes = r.subs,
                     !.out = getFilteredBots(probe.ds, probe.errorValues, r.subs)]
    /\ UNCHANGED <<sessionVars, lastOp, card, hover>>

NextKeys ==
  \/ KeysAddSubtype
  \/ KeysClearSubtypes

SpecKeys == InitKeys /\ [][NextKeys]_vars

\* the uuids of the records of a category
UuidsOfCategory(ds, errorType) ==
  {Datasets[ds].allBots[i].uuid :
     i \in {k \in 1..Len(Datasets[ds].allBots) :
              Datasets[ds].allBots[k].status.value = errorType}}

\* C24: the composite keys of distinct subtype entries are distinct; a key added for a
\* subtype of one category selects only records of that category; clearing the subtypes
\* of one category leaves the selected keys of the subtypes of every other category.
C24_KeysKeepCategoriesApart ==
  /\ \A i, j \in 1..Len(ErrorTables[probe.ds]) :
       i # j => EntryKey(ErrorTables[probe.ds][i]) # EntryKey(ErrorTables[probe.ds][j])
  /\ probe.call = "addSubtype" =>
       SelectedSubtypeUuids(ErrorTables[probe.ds], <<probe.key.subtypeKey>>)
         \subseteq UuidsOfCategory(probe.ds, probe.key.errorType)
  /\ probe.call = "clearSubtypesForError" =>
       \A j \in 1..Len(ErrorTables[probe.ds]) :
         (/\ ErrorTables[probe.ds][j].originalType # probe.key.errorType
          /\ includes(probe.before, EntryKey(ErrorTables[probe.ds][j])))
           => includes(probe.subtypes, EntryKey(ErrorTables[probe.ds][j]))

(***************************************************************************)
(* SpecChain: three tabs; one of them makes one write, and the browser     *)
(* dispatches the storage events until none is left.                       *)
(***************************************************************************)
ChainSessions == {1, 2, 3}
\* most undelivered storage events per session
MaxChainInbox == 5

InitChain ==
  /\ mounted = ChainSessions
  /\ dataset \in [ChainSessions -> SessionDatasets]
  /\ localStorage = [k \in {SELECTED_ERROR_STORAGE_KEY, SELECTED_SUBTYPES_STORAGE_KEY} |-> Null]
  /\ selectedErrorValues = [s \in ChainSessions |-> Hydrated(dataset[s], localStorage).err]
  /\ selectedSubtypes = [s \in ChainSessions |-> Hydrated(dataset[s], localStorage).subs]
  /\ filteredBots = [s \in ChainSessions |-> Hydrated(dataset[s], localStorage).fb]
  /\ inbox = [s \in ChainSessions |-> <<>>]
  /\ lastOp = NoOp
  /\ probe = ProbeIdle
  /\ card = CardIdle
  /\ hover = HoverIdle

\* the render and effects after a handler of session s left w: its storage events are
\* queued for every other tab
ChainCommit(s, r, rest, op) ==
  /\ \A t \in ChainSessions \ {s} : Len(inbox[t]) + Len(r.out) <= MaxChainInbox
  /\ selectedErrorValues' = [selectedErrorValues EXCEPT ![s] = r.err]
  /\ selectedSubtypes' = [selectedSubtypes EXCEPT ![s] = r.subs]
  /\ filteredBots' = [filteredBots EXCEPT ![s] = r.fb]
  /\ localStorage' = r.store
  /\ inbox' = [t \in ChainSessions |-> IF t = s THEN rest ELSE inbox[t] \o r.out]
  /\ lastOp' = op
  /\ UNCHANGED <<mounted, dataset, probe, card, hover>>

\* the initial write: one tab adds a category and writes the categories entry once
ChainAddErrorValue(s) ==
  \E value \in ErrorValueInputs, w \in {World(s)} :
    \E r \in {Settle(dataset[s], addErrorValue(dataset[s], Closure(w), w, value))} :
      /\ lastOp = NoOp
      /\ Len(r.out) = 1
      /\ ChainCommit(s, r, inbox[s], Op("addErrorValue", s, value))

\* the initial write: one tab adds a subtype key and writes the subtypes entry once
ChainAddSubtype(s) ==
  \E subtype \in SubtypeInputs, w \in {World(s)} :
    \E r \in {Settle(dataset[s], addSubtype(dataset[s], Closure(w), w, subtype))} :
      /\ lastOp = NoOp
      /\ Len(r.out) = 1
      /\ ChainCommit(s, r, inbox[s], Op("addSubtype", s, subtype))

\* the browser dispatches the oldest pending storage event to tab s
ChainDeliver(s) ==
  /\ inbox[s] # <<>>
  /\ \E w \in {World(s)} :
       ChainCommit(s, Settle(dataset[s],
                             handleStorageChange(dataset[s], Closure(w), w, Head(inbox[s]))),
                   Tail(inbox[s]), Op("storage", s, Head(inbox[s])))

NextChain ==
  \/ \E s \in ChainSessions : ChainAddErrorValue(s)
  \/ \E s \in ChainSessions : ChainAddSubtype(s)
  \/ \E s \in ChainSessions : ChainDeliver(s)

SpecChain == InitChain /\ [][NextChain]_vars

\* every queued storage event is dispatched to its tab
SpecChainFair == SpecChain /\ \A s \in ChainSessions : WF_vars(ChainDeliver(s))

ChainQuiet == \A s \in ChainSessions : inbox[s] = <<>>
\* an inbox is so long that a later write might not fit in it
ChainOverflow == \E s \in ChainSessions : Len(inbox[s]) >= MaxChainInbox - 1

\* C25: after the initial write every dispatch of the pending events leads to a state in
\* which no event is pending (the runs whose inboxes outgrow the model are left aside).
C25_ChainOfNotificationsTerminates ==
  (lastOp # NoOp) ~> (ChainQuiet \/ ChainOverflow)

(***************************************************************************)
(* SpecBatch: two handlers of one render run before React renders again.   *)
(* Both see the selectedErrorValues and selectedSubtypes of that render.   *)
(***************************************************************************)
\* addErrorValue(a); addErrorValue(b) in one event handler of a consumer
BatchAddErrorValue(s) ==
  \E a, b \in ToSet(allErrorValues(dataset[s])), w \in {World(s)} :
    /\ a # b
    /\ Len(w.err) <= MaxSel
    /\ Call(s, addErrorValue(dataset[s], Closure(w),
                             addErrorValue(dataset[s], Closure(w), w, a), b),
            Op("addErrorValue;addErrorValue", s, <<a, b>>))

\* addSubtype(x); addSubtype(y) in one event handler of a consumer
BatchAddSubtype(s) ==
  \E x, y \in SubtypeInputs, w \in {World(s)} :
    /\ x # y
    /\ Call(s, addSubtype(dataset[s], Closure(w),
                          addSubtype(dataset[s], Closure(w), w, x), y),
            Op("addSubtype;addSubtype", s, <<x, y>>))

\* a storage event is handled and, before the render it asks for, the user adds a category
BatchStorageThenAdd(s) ==
  \E a \in ToSet(allErrorValues(dataset[s])), w \in {World(s)} :
    /\ inbox[s] # <<>>
    /\ Len(w.err) <= MaxSel
    /\ Commit(s, addErrorValue(dataset[s], Closure(w),
                               handleStorageChange(dataset[s], Closure(w), w, Head(inbox[s])),
                               a),
              Tail(inbox[s]),
              Op("storage;addErrorValue", s, [event |-> Head(inbox[s]), value |-> a]))

NextBatch ==
  \/ \E s \in mounted : BatchAddErrorValue(s)
  \/ \E s \in mounted : BatchAddSubtype(s)
  \/ \E s \in mounted : BatchStorageThenAdd(s)
  \/ \E s \in mounted : SelectNone(s)
  \/ \E s \in mounted : DatasetChange(s)
  \/ ForeignWrite

SpecBatch == Init /\ [][NextBatch]_vars

\* C26: after two mutations made from one render the selection in memory holds the
\* effect of both, and the persisted entry is that selection: both added categories,
\* both added subtype keys, or the categories adopted from a storage event and the
\* category added after it.
C26_BothMutationsTakeEffect ==
  \A s \in mounted :
    /\ (lastOp.op = "addErrorValue;addErrorValue" /\ lastOp.s = s) =>
         /\ includes(selectedErrorValues[s], lastOp.arg[1])
         /\ includes(selectedErrorValues[s], lastOp.arg[2])
         /\ StoredErrors = JSONstringify(selectedErrorValues[s])
    /\ (lastOp.op = "addSubtype;addSubtype" /\ lastOp.s = s) =>
         /\ includes(selectedSubtypes[s], lastOp.arg[1])
         /\ includes(selectedSubtypes[s], lastOp.arg[2])
         /\ StoredSubs = JSONstringify(selectedSubtypes[s])
    /\ (/\ lastOp.op = "storage;addErrorValue" /\ lastOp.s = s
        /\ lastOp.arg.event.key = SELECTED_ERROR_STORAGE_KEY
        /\ JSONparse(lastOp.arg.event.newValue).ok) =>
         /\ includes(selectedErrorValues[s], lastOp.arg.value)
         /\ \A v \in ToSet(ValidValues(dataset[s], JSONparse(lastOp.arg.event.newValue).items)) :
              includes(selectedErrorValues[s], v)
         /\ StoredErrors = JSONstringify(selectedErrorValues[s])

\* C27: once a session has been constructed over a categories entry that holds a list,
\* the entry is the selection the session holds in memory, and so names only available
\* categories.
C27_HydrationRewritesThePrunedEntry ==
  \A s \in mounted :
    (lastOp = Op("mount", s, <<>>) /\ JSONparse(StoredErrors).ok) =>
      /\ StoredErrors = JSONstringify(selectedErrorValues[s])
      /\ \A i \in 1..Len(StoredErrors.items) : StoredErrors.items[i] \in Available(s)

\* C28: selectedErrorValues never holds a category twice, and a step of addErrorValue
\* either leaves the selection as it was (the category was selected already, or is not
\* available) or appends one category that was not selected.
C28_SelectionIsASet ==
  /\ [](\A s \in mounted : Distinct(selectedErrorValues[s]) = selectedErrorValues[s])
  /\ [][\A s \in mounted :
          (lastOp'.op = "addErrorValue" /\ lastOp'.s = s /\ lastOp' # lastOp) =>
            \/ selectedErrorValues'[s] = selectedErrorValues[s]
            \/ \E v \in Available(s) \ ToSet(selectedErrorValues[s]) :
                 selectedErrorValues'[s] = Append(selectedErrorValues[s], v)]_vars

\* C29: the Set of subtype keys the card shows and filters by is the selectedSubtypes of
\* its session; after a click on a subtype the persisted subtypes entry holds that Set
\* and filteredBots is narrowed by it; after handleSelectNone and handleSelectDefault
\* the card works on filteredBots as they are.
C29_CardSubtypesAreTheSessionSubtypes ==
  /\ ToSet(card.selectedSubtypes) = ToSet(selectedSubtypes[1])
  /\ lastOp.op = "handleSubtypeClick" =>
       /\ StoredSubs = JSONstringify(selectedSubtypes[1])
       /\ filteredBots[1] = getFilteredBots(dataset[1], selectedErrorValues[1],
                                            card.selectedSubtypes)
  /\ lastOp.op \in {"handleSelectNone", "handleSelectDefault"} =>
       /\ card.selectedSubtypes = <<>>
       /\ CardLocal = filteredBots[1]

\* the composite keys of the subtype entries of the taxonomy of session s
TaxonomyKeys(s) ==
  {EntryKey(ErrorTables[dataset[s]][j]) : j \in 1..Len(ErrorTables[dataset[s]])}

\* C30: every key of selectedSubtypes, whether hydrated from storage or adopted from a
\* notification, is the key of a subtype entry of the taxonomy of the session.
C30_SubtypeKeysAreValidated ==
  \A s \in mounted :
    \A i \in 1..Len(selectedSubtypes[s]) : selectedSubtypes[s][i] \in TaxonomyKeys(s)

====
